---------------------------- MODULE Spec2Model ----------------------------
(***************************************************************************)
(* Emojify: the mosaic compositor (video_emojisaic.py) and the job-queue   *)
(* web front end (webapp/app.py).                                          *)
(*                                                                         *)
(* Six state machines share this module:                                   *)
(*   SpecRender   one call of mosaic_image: grid shape, quantization,      *)
(*                canvas creation and the merge loop, one loop iteration   *)
(*                per step;                                                *)
(*   SpecQuantize nearest_emoji_index applied to a region colour;          *)
(*   SpecFrames   /process_frame handlers running concurrently over the    *)
(*                size-keyed palette cache;                                *)
(*   SpecJobs     /process, the worker thread running run_job, /status     *)
(*                and /download;                                           *)
(*   SpecClamp    clamp_int at the call sites of the web app;              *)
(*   SpecShared   several calls of mosaic_image, interleaved and in        *)
(*                sequence, over one shared palette.                       *)
(* SpecRenderFair and SpecJobsFair add the fairness of the running         *)
(* threads.                                                                *)
(* Each specification leaves the variables of the others at their idle     *)
(* values.                                                                 *)
(***************************************************************************)
EXTENDS Integers, Sequences, FiniteSets, TLC

VARIABLES
    \* ---- mosaic_image (video_emojisaic.py:92-116) ----
    img,              \* the source image: [w, h, mean], mean = region means
    palette_colors,   \* sequence of representative colours (index 0 first)
    size,             \* tile size S
    zoom,
    max_emoji_block,
    rows, cols,       \* grid.shape
    grid,             \* [cell -> palette index], cells are <<row, col>>
    covered,          \* [cell -> BOOLEAN]
    row, col,         \* loop cursors
    plan,             \* placements emitted so far: [r, c, v, side]
    pastes,           \* out.paste calls so far: [x, y, px, resized]
    out,              \* the canvas [w, h] in a sequence, << >> before Image.new
    iterations,       \* iterations of the while loop of line 100 so far
    pc,               \* position inside mosaic_image
    \* ---- nearest_emoji_index (video_emojisaic.py:57-60) ----
    color,            \* the region colour handed to nearest_emoji_index
    nearest,          \* its result in a sequence, << >> before it returns
    qpc,              \* "call", "returned" or "raised"
    \* ---- /process_frame and the palette cache (app.py:35-36, 202-208, 297-329) ----
    emojis_dir,       \* the tile library: a set of png files
    palette_cache,    \* [size -> << >> or <<palette>>]
    builds,           \* [size -> number of build_emoji_palette calls]
    fpc,              \* [handler thread -> position in process_frame]
    freq,             \* [handler thread -> the clamped size and max_block]
    fpal,             \* [handler thread -> the palette it was handed]
    fres,             \* [handler thread -> its last response]
    \* ---- the job queue (app.py:31-32, 39-51, 100-199, 213-294) ----
    jobs,             \* the Job objects, in creation order; a job's id is its index
    job_queue,        \* queue.Queue of job ids
    putting,          \* jobs a /process handler has registered and not yet put
    enqueued,         \* history: the job ids in the order of job_queue.put
    wpc,              \* position of the worker thread
    cur,              \* the job the worker holds, 0 for none
    \* ---- clamp_int (app.py:82-87) and its call sites ----
    form_value,       \* the form field handed to clamp_int
    call_site,        \* which call of clamp_int
    clamped,          \* its result in a sequence, << >> before it returns
    \* ---- calls of mosaic_image over one palette ----
    \* (video_emojisaic.py:144, 175-178; app.py:316-324)
    shared_palette,   \* [size, colors, images]: the palette every call is handed
    calls             \* [call -> the arguments and local variables of that call]

renderVars == <<img, palette_colors, size, zoom, max_emoji_block, rows, cols,
                grid, covered, row, col, plan, pastes, out, iterations, pc>>
quantVars == <<color, nearest, qpc>>
frameVars == <<emojis_dir, palette_cache, builds, fpc, freq, fpal, fres>>
jobVars == <<jobs, job_queue, putting, enqueued, wpc, cur>>
clampVars == <<form_value, call_site, clamped>>
sharedVars == <<shared_palette, calls>>
vars == <<renderVars, quantVars, frameVars, jobVars, clampVars, sharedVars>>
nonRenderVars == <<quantVars, frameVars, jobVars, clampVars, sharedVars>>

(***************************************************************************)
(* Bounds of the model.                                                    *)
(***************************************************************************)
MaxRows == 3        \* grids with arbitrary content have at most this many rows
MaxCols == 3        \* ... and columns
MaxCells == 9       \* ... and cells
MaxBlock == 3       \* largest max_emoji_block tried
MaxPalette == 3     \* longest palette handed to nearest_emoji_index
MaxThreads == 2     \* concurrent /process_frame handlers
MaxJobs == 2        \* jobs /process may enqueue
MaxRaw == 50        \* form fields hold integers of at most this magnitude
MaxCalls == 2       \* concurrent calls of mosaic_image over one palette

Min(a, b) == IF a <= b THEN a ELSE b
Max(a, b) == IF a >= b THEN a ELSE b

(***************************************************************************)
(* Colours are RGB triples.  Black and White are the two-tile palette of   *)
(* the nearest-neighbour test; Dark, Mid and Light are region means.       *)
(***************************************************************************)
Black == <<0, 0, 0>>
White == <<255, 255, 255>>
Dark  == <<10, 10, 10>>
Mid   == <<127, 127, 127>>
Light == <<250, 250, 250>>

\* Mutant: the differences are summed without being squared.
SqDist_NoSquare(a, b) == (a[1] - b[1]) + (a[2] - b[2]) + (a[3] - b[3])

\* np.sum((palette_colors - color) ** 2, axis=1), one entry
SqDist(a, b) ==
    (a[1] - b[1]) * (a[1] - b[1]) + (a[2] - b[2]) * (a[2] - b[2])
        + (a[3] - b[3]) * (a[3] - b[3])

\* np.argmin: a linear scan keeping the first strictly smaller entry.
\* Indices are 0-based as in the source; the palette sequence is 1-based.
RECURSIVE ArgMinScan(_, _, _, _)
ArgMinScan(distances, i, best, bestVal) ==
    IF i > Len(distances) THEN best
    ELSE IF distances[i] < bestVal
         THEN ArgMinScan(distances, i + 1, i - 1, distances[i])
         ELSE ArgMinScan(distances, i + 1, best, bestVal)

\* Mutant: the scan keeps the last minimal entry (<= for <).
RECURSIVE ArgMinScanLast(_, _, _, _)
ArgMinScanLast(distances, i, best, bestVal) ==
    IF i > Len(distances) THEN best
    ELSE IF distances[i] <= bestVal
         THEN ArgMinScanLast(distances, i + 1, i - 1, distances[i])
         ELSE ArgMinScanLast(distances, i + 1, best, bestVal)

ArgMin_LastMin(distances) == ArgMinScanLast(distances, 2, 0, distances[1])

ArgMin(distances) == ArgMinScan(distances, 2, 0, distances[1])

\* nearest_emoji_index(color, palette_colors): "error" models the ValueError
\* numpy raises when the (0,)-shaped empty palette meets the (3,)-shaped colour.
NearestEmojiIndex(c, colors) ==
    IF Len(colors) = 0 THEN "error"
    ELSE ArgMin([i \in 1..Len(colors) |-> SqDist(colors[i], c)])

(***************************************************************************)
(* build_emoji_grid                                                        *)
(***************************************************************************)
\* Mutant: floor division in place of ceil.
CeilDiv_Floor(length, s) ==
    IF s > 0 THEN length \div s
    ELSE 0 - ((length + (0 - s) - 1) \div (0 - s))

\* math.ceil(length / size) for size # 0 (Python true division, then ceil)
CeilDiv(length, s) ==
    IF s > 0 THEN (length + s - 1) \div s
    ELSE 0 - (length \div (0 - s))

Cells(rs, cs) == (0..(rs - 1)) \X (0..(cs - 1))

\* The outcome of build_emoji_grid(img, size, palette_colors): "error" when it
\* raises (ZeroDivisionError for size = 0, ValueError from np.empty for a
\* negative dimension, ValueError from nearest_emoji_index for an empty
\* palette), else the grid with its shape.
BuildEmojiGrid(image, s, colors) ==
    IF s = 0 THEN [ok |-> FALSE]
    ELSE LET cs == CeilDiv(image.w, s)
             rs == CeilDiv(image.h, s)
         IN  IF rs < 0 \/ cs < 0 THEN [ok |-> FALSE]
             ELSE IF Cells(rs, cs) # {} /\ Len(colors) = 0 THEN [ok |-> FALSE]
             ELSE [ok |-> TRUE, rows |-> rs, cols |-> cs,
                   grid |-> [cell \in Cells(rs, cs) |->
                                NearestEmojiIndex(image.mean[cell], colors)]]

(***************************************************************************)
(* largest_uniform_square                                                  *)
(***************************************************************************)
Block(r, c, side) == (r..(r + side - 1)) \X (c..(c + side - 1))

\* np.all(block == emoji_index) and not np.any(covered[...])
BlockFree(g, cov, r, c, emoji_index, side) ==
    /\ \A cell \in Block(r, c, side) : g[cell] = emoji_index
    /\ \A cell \in Block(r, c, side) : ~cov[cell]

\* Mutant: without a candidate the search hands back 0.
RECURSIVE SearchSide_ZeroFallback(_, _, _, _, _, _)
SearchSide_ZeroFallback(g, cov, r, c, emoji_index, side) ==
    IF side < 1 THEN 0
    ELSE IF BlockFree(g, cov, r, c, emoji_index, side) THEN side
    ELSE SearchSide_ZeroFallback(g, cov, r, c, emoji_index, side - 1)

RECURSIVE SearchSide(_, _, _, _, _, _)
SearchSide(g, cov, r, c, emoji_index, side) ==
    IF side < 1 THEN 1
    ELSE IF BlockFree(g, cov, r, c, emoji_index, side) THEN side
    ELSE SearchSide(g, cov, r, c, emoji_index, side - 1)

\* Mutant: the covered mask is not consulted.
LargestUniformSquare_NoCoveredCheck(g, cov, rs, cs, r, c, emoji_index, max_side) ==
    LET max_possible == Min(max_side, Min(rs - r, cs - c))
        none == [cell \in DOMAIN cov |-> FALSE]
    IN  SearchSide(g, none, r, c, emoji_index, max_possible)

\* Mutant: max_side is left out of max_possible.
LargestUniformSquare_IgnoreMaxSide(g, cov, rs, cs, r, c, emoji_index, max_side) ==
    LET max_possible == Min(rs - r, cs - c)
    IN  SearchSide(g, cov, r, c, emoji_index, max_possible)

\* Mutant: without a candidate the search hands back max_possible, not 1.
LargestUniformSquare_NoFallback(g, cov, rs, cs, r, c, emoji_index, max_side) ==
    LET max_possible == Min(max_side, Min(rs - r, cs - c))
    IN  IF max_possible < 1 THEN max_possible
        ELSE SearchSide(g, cov, r, c, emoji_index, max_possible)

\* Mutant: candidate sides are tried from smallest to largest.
RECURSIVE SearchSideUp(_, _, _, _, _, _, _)
SearchSideUp(g, cov, r, c, emoji_index, side, limit) ==
    IF side > limit THEN 1
    ELSE IF BlockFree(g, cov, r, c, emoji_index, side) THEN side
    ELSE SearchSideUp(g, cov, r, c, emoji_index, side + 1, limit)

LargestUniformSquare_SmallestFirst(g, cov, rs, cs, r, c, emoji_index, max_side) ==
    LET max_possible == Min(max_side, Min(rs - r, cs - c))
    IN  SearchSideUp(g, cov, r, c, emoji_index, 1, max_possible)

LargestUniformSquare(g, cov, rs, cs, r, c, emoji_index, max_side) ==
    LET max_possible == Min(max_side, Min(rs - r, cs - c))
    IN  SearchSide(g, cov, r, c, emoji_index, max_possible)

(***************************************************************************)
(* Inputs of one render.                                                   *)
(***************************************************************************)
SizeValues == {-1, 0, 1, 2, 8}
ZoomValues == {-1, 0, 1, 2}
BlockValues == (-1)..MaxBlock
RenderPalettes == {<< >>, <<Black>>, <<Black, White>>}
RegionMeans == {Dark, Light}
TestImage == <<64, 64>>     \* the 64x64 image of the canvas-sizing test
ImageDims == ((1..MaxCols) \X (1..MaxRows)) \cup {TestImage}

\* The region means an image of w x h pixels may have at tile size s.  A grid
\* of at most MaxRows x MaxCols and MaxCells cells under the two-tile palette
\* takes every assignment of means; a larger grid of at most 8 x 8 cells, or
\* a grid under a shorter palette, is uniform.  For s <= 0 no region is read.
RegionMeanMaps(w, h, s, colors) ==
    IF s <= 0 THEN {<< >>}
    ELSE LET rs == CeilDiv(h, s)
             cs == CeilDiv(w, s)
         IN  IF rs <= MaxRows /\ cs <= MaxCols /\ rs * cs <= MaxCells
                /\ Len(colors) = 2
             THEN [Cells(rs, cs) -> RegionMeans]
             ELSE IF rs * cs <= 8 * 8
                  THEN {[cell \in Cells(rs, cs) |-> m] : m \in RegionMeans}
                  ELSE {}

(***************************************************************************)
(* mosaic_image, one step per statement group.                             *)
(*   pc = "start"  before line 93                                          *)
(*   pc = "canvas" grid built, before line 95                              *)
(*   pc = "while"  at the head of the while loop of line 100               *)
(*   pc = "done"   returned out                                            *)
(*   pc = "error"  an exception left mosaic_image                          *)
(***************************************************************************)
QuantIdle == color = << >> /\ nearest = << >> /\ qpc = "idle"

FramesIdle ==
    /\ emojis_dir = {} /\ palette_cache = << >> /\ builds = << >>
    /\ fpc = << >> /\ freq = << >> /\ fpal = << >> /\ fres = << >>

JobsIdle ==
    /\ jobs = << >> /\ job_queue = << >> /\ wpc = "idle" /\ cur = 0
    /\ putting = {} /\ enqueued = << >>

ClampIdle == form_value = << >> /\ call_site = "" /\ clamped = << >>

SharedIdle == shared_palette = << >> /\ calls = << >>

InitRender ==
    /\ size \in SizeValues
    /\ zoom \in ZoomValues
    /\ max_emoji_block \in BlockValues
    /\ palette_colors \in RenderPalettes
    /\ \E d \in ImageDims :
         \E m \in RegionMeanMaps(d[1], d[2], size, palette_colors) :
            img = [w |-> d[1], h |-> d[2], mean |-> m]
    /\ rows = 0 /\ cols = 0
    /\ grid = << >> /\ covered = << >>
    /\ row = 0 /\ col = 0
    /\ plan = << >> /\ pastes = << >>
    /\ out = << >>
    /\ iterations = 0
    /\ pc = "start"
    /\ QuantIdle /\ FramesIdle /\ JobsIdle /\ ClampIdle /\ SharedIdle

\* line 93-94: grid = build_emoji_grid(...); rows, cols = grid.shape
BuildGrid ==
    /\ pc = "start"
    /\ LET b == BuildEmojiGrid(img, size, palette_colors)
       IN  IF b.ok
           THEN /\ rows' = b.rows /\ cols' = b.cols /\ grid' = b.grid
                /\ pc' = "canvas"
           ELSE /\ pc' = "error"
                /\ UNCHANGED <<rows, cols, grid>>
    /\ UNCHANGED <<img, palette_colors, size, zoom, max_emoji_block, covered,
                   row, col, plan, pastes, out, iterations, nonRenderVars>>

\* Image.new("RGB", (cols * size * zoom, rows * size * zoom)): Pillow raises
\* ValueError for a negative width or height.
CanvasWidth(cs, s, z) == cs * s * z
CanvasHeight(rs, s, z) == rs * s * z

\* line 95-98: the canvas, the all-false coverage mask, the first row
NewCanvas ==
    /\ pc = "canvas"
    /\ IF CanvasWidth(cols, size, zoom) < 0 \/ CanvasHeight(rows, size, zoom) < 0
       THEN /\ pc' = "error"
            /\ UNCHANGED <<out, covered, row, col>>
       ELSE /\ out' = <<[w |-> CanvasWidth(cols, size, zoom),
                        h |-> CanvasHeight(rows, size, zoom)]>>
            /\ covered' = [cell \in Cells(rows, cols) |-> FALSE]
            /\ row' = 0 /\ col' = 0
            /\ pc' = IF rows >= 1 THEN "while" ELSE "done"
    /\ UNCHANGED <<img, palette_colors, size, zoom, max_emoji_block, rows, cols,
                   grid, plan, pastes, iterations, nonRenderVars>>

\* line 101-103: an already covered cell is skipped
SkipCovered ==
    /\ pc = "while"
    /\ col < cols
    /\ covered[<<row, col>>]
    /\ col' = col + 1
    /\ iterations' = iterations + 1
    /\ UNCHANGED <<img, palette_colors, size, zoom, max_emoji_block, rows, cols,
                   grid, covered, row, plan, pastes, out, pc, nonRenderVars>>

\* Mutant: only the anchor's row of the block is marked.
MarkCovered_AnchorRowOnly(cov, rs, cs, r, c, side) ==
    [cell \in Cells(rs, cs) |->
        cov[cell] \/ (cell \in Block(r, c, side) /\ cell[1] = r)]

\* covered[row : row + side, col : col + side] = True (numpy clips the slice)
MarkCovered(cov, rs, cs, r, c, side) ==
    [cell \in Cells(rs, cs) |-> cov[cell] \/ cell \in Block(r, c, side)]

\* Mutant: the target size leaves out the zoom factor.
TargetSize_NoZoom(side, s, z) == side * s

\* line 110: target_size = side * size * zoom
TargetSize(side, s, z) == side * s * z

\* Mutant: the cursor moves one column whatever the side of the block.
NextCol_OneColumn(c, side) == c + 1

\* line 114: col += side
NextCol(c, side) == c + side

\* line 105-114: one placement.  emoji.resize raises ValueError for a target
\* size below 1, after the mask was written and before the paste.
Place ==
    /\ pc = "while"
    /\ col < cols
    /\ ~covered[<<row, col>>]
    /\ LET emoji_index == grid[<<row, col>>]
           side == LargestUniformSquare(grid, covered, rows, cols, row, col,
                                        emoji_index, max_emoji_block)
           target_size == TargetSize(side, size, zoom)
           resized == side # 1 \/ zoom # 1
       IN  /\ covered' = MarkCovered(covered, rows, cols, row, col, side)
           /\ iterations' = iterations + 1
           /\ IF resized /\ target_size < 1
              THEN /\ pc' = "error"
                   /\ UNCHANGED <<plan, pastes, col>>
              ELSE /\ plan' = Append(plan, [r |-> row, c |-> col,
                                            v |-> emoji_index, side |-> side])
                   /\ pastes' = Append(pastes,
                                   [x |-> col * size * zoom,
                                    y |-> row * size * zoom,
                                    px |-> IF resized THEN target_size ELSE size,
                                    resized |-> resized])
                   /\ col' = NextCol(col, side)
                   /\ pc' = pc
    /\ UNCHANGED <<img, palette_colors, size, zoom, max_emoji_block, rows, cols,
                   grid, row, out, nonRenderVars>>

\* line 100 false, line 98: the next row, or line 116: return out
EndRow ==
    /\ pc = "while"
    /\ col >= cols
    /\ IF row + 1 < rows
       THEN /\ row' = row + 1 /\ col' = 0 /\ pc' = pc
       ELSE /\ pc' = "done" /\ UNCHANGED <<row, col>>
    /\ UNCHANGED <<img, palette_colors, size, zoom, max_emoji_block, rows, cols,
                   grid, covered, plan, pastes, out, iterations, nonRenderVars>>

NextRender == BuildGrid \/ NewCanvas \/ SkipCovered \/ Place \/ EndRow

SpecRender == InitRender /\ [][NextRender]_vars

\* mosaic_image runs in one thread: while a statement is left, it is executed
SpecRenderFair == SpecRender /\ WF_vars(NextRender)

(***************************************************************************)
(* nearest_emoji_index applied to one region colour.                       *)
(***************************************************************************)
Channels == {0, 255}
PaletteColorSet == Channels \X Channels \X Channels
RegionChannels == {10, 127, 250}
RegionColorSet == RegionChannels \X RegionChannels \X RegionChannels

RECURSIVE SeqsUpTo(_, _)
SeqsUpTo(S, n) ==
    IF n = 0 THEN {<< >>}
    ELSE LET shorter == SeqsUpTo(S, n - 1)
         IN  shorter \cup {Append(q, x) : q \in shorter, x \in S}

RenderIdle ==
    /\ img = << >> /\ palette_colors = << >> /\ size = 0 /\ zoom = 0 /\ max_emoji_block = 0
    /\ rows = 0 /\ cols = 0 /\ grid = << >> /\ covered = << >>
    /\ row = 0 /\ col = 0 /\ plan = << >> /\ pastes = << >>
    /\ out = << >> /\ iterations = 0 /\ pc = "idle"

InitQuantize ==
    /\ palette_colors \in SeqsUpTo(PaletteColorSet, MaxPalette)
    /\ color \in RegionColorSet
    /\ nearest = << >>
    /\ qpc = "call"
    /\ img = << >> /\ size = 0 /\ zoom = 0 /\ max_emoji_block = 0
    /\ rows = 0 /\ cols = 0 /\ grid = << >> /\ covered = << >>
    /\ row = 0 /\ col = 0 /\ plan = << >> /\ pastes = << >>
    /\ out = << >> /\ iterations = 0 /\ pc = "idle"
    /\ FramesIdle /\ JobsIdle /\ ClampIdle /\ SharedIdle

\* line 57-60: the call returns the index, or raises on the empty palette
Quantize ==
    /\ qpc = "call"
    /\ LET i == NearestEmojiIndex(color, palette_colors)
       IN  IF Len(palette_colors) = 0
           THEN qpc' = "raised" /\ nearest' = nearest
           ELSE qpc' = "returned" /\ nearest' = <<i>>
    /\ UNCHANGED <<renderVars, clampVars, sharedVars,
                   color, frameVars, jobVars>>

NextQuantize == Quantize

SpecQuantize == InitQuantize /\ [][NextQuantize]_vars

(***************************************************************************)
(* The palette builder and the size-keyed palette cache, used by           *)
(* concurrent /process_frame handlers.                                     *)
(***************************************************************************)
\* A request form value: absent or not an integer literal (int() raises
\* TypeError or ValueError), or an integer literal.
Unparsable == [parses |-> FALSE, n |-> 0]
Literal(n) == [parses |-> TRUE, n |-> n]

\* Mutant: the lower limit is not applied.
ClampInt_NoMinimum(value, minimum, maximum, default) ==
    IF ~value.parses THEN default ELSE Min(maximum, value.n)

\* clamp_int(value, minimum, maximum, default)
ClampInt(value, minimum, maximum, default) ==
    IF ~value.parses THEN default
    ELSE Max(minimum, Min(maximum, value.n))

\* line 239: fps = clamp_int(request.form.get("fps"), 1, 30, 8)
ProcessFps(raw) == ClampInt(raw, 1, 30, 8)
\* line 240: size = clamp_int(request.form.get("size"), 4, 48, 12)
ProcessSize(raw) == ClampInt(raw, 4, 48, 12)
\* line 303: size = clamp_int(request.form.get("size"), 4, 48, 12)
FrameSize(raw) == ClampInt(raw, 4, 48, 12)
\* line 304: max_block = clamp_int(request.form.get("max_block"), 1, 20, 8)
FrameMaxBlock(raw) == ClampInt(raw, 1, 20, 8)

\* A png of the tile library: rgb is the mean colour of its pixels of
\* alpha > 0, visible tells whether it has any such pixel.
TileFiles ==
    { [name |-> 1, rgb |-> White, visible |-> TRUE],
      [name |-> 2, rgb |-> Black, visible |-> TRUE],
      [name |-> 3, rgb |-> White, visible |-> FALSE] }

\* average_color of an RGBA image
AverageColor(tile) == IF ~tile.visible THEN Black ELSE tile.rgb

\* sorted(emojis_dir.glob("*.png"))
RECURSIVE SortedFiles(_)
SortedFiles(dir) ==
    IF dir = {} THEN << >>
    ELSE LET first == CHOOSE f \in dir : \A g \in dir : f.name <= g.name
         IN  <<first>> \o SortedFiles(dir \ {first})

\* Mutant: a fully transparent png is left out of the palette.
BuildEmojiPalette_SkipTransparent(dir, s) ==
    LET files == SortedFiles({f \in dir : f.visible})
    IN  [colors |-> [i \in 1..Len(files) |-> AverageColor(files[i])],
         images |-> [i \in 1..Len(files) |-> [name |-> files[i].name, side |-> s]]]

\* build_emoji_palette(emojis_dir, size): the colours array and the resized
\* images, one entry per png, in file-name order; no entry, no error.
BuildEmojiPalette(dir, s) ==
    LET files == SortedFiles(dir)
    IN  [colors |-> [i \in 1..Len(files) |-> AverageColor(files[i])],
         images |-> [i \in 1..Len(files) |-> [name |-> files[i].name, side |-> s]]]

RawSizes == {Unparsable, Literal(0), Literal(100)}
RawBlocks == {Unparsable, Literal(0)}
FrameSizes == {FrameSize(v) : v \in RawSizes}
Threads == 1..MaxThreads
\* the decoded frame: one region
Frame == [w |-> 1, h |-> 1, mean |-> [cell \in Cells(1, 1) |-> Dark]]

InitFrames ==
    /\ emojis_dir \in SUBSET TileFiles
    /\ palette_cache = [s \in FrameSizes |-> << >>]
    /\ builds = [s \in FrameSizes |-> 0]
    /\ fpc = [t \in Threads |-> "idle"]
    /\ freq = [t \in Threads |-> << >>]
    /\ fpal = [t \in Threads |-> << >>]
    /\ fres = [t \in Threads |-> "none"]
    /\ RenderIdle /\ QuantIdle /\ JobsIdle /\ ClampIdle /\ SharedIdle

\* line 299-301: no frame in the request
FrameMissing(t) ==
    /\ fpc[t] = "idle"
    /\ fres' = [fres EXCEPT ![t] = "400"]
    /\ freq' = [freq EXCEPT ![t] = << >>]
    /\ fpal' = [fpal EXCEPT ![t] = << >>]
    /\ UNCHANGED <<renderVars, clampVars, sharedVars,
                   quantVars, jobVars, emojis_dir, palette_cache,
                   builds, fpc>>

\* line 303-314: the form values are clamped and the frame decoded
FrameParse(t) ==
    /\ fpc[t] = "idle"
    /\ \E rawSize \in RawSizes, rawBlock \in RawBlocks :
          freq' = [freq EXCEPT ![t] =
                      <<[size |-> FrameSize(rawSize),
                         max_block |-> FrameMaxBlock(rawBlock)]>>]
    /\ fpc' = [fpc EXCEPT ![t] = "palette"]
    /\ fpal' = [fpal EXCEPT ![t] = << >>]
    /\ fres' = [fres EXCEPT ![t] = "none"]
    /\ UNCHANGED <<renderVars, clampVars, sharedVars,
                   quantVars, jobVars, emojis_dir, palette_cache,
                   builds>>

\* Mutant: the palette is built and stored without looking at the cache.
CacheGet_AlwaysBuild(cache, built, dir, s) ==
    LET p == [size |-> s, build |-> built[s] + 1,
              palette |-> BuildEmojiPalette(dir, s)]
    IN  [cache |-> [cache EXCEPT ![s] = <<p>>],
         builds |-> [built EXCEPT ![s] = built[s] + 1],
         cached |-> p]

\* get_palette_for_size(size), the body under palette_lock: the cache after
\* the call and the palette returned.  A palette instance is told apart by
\* the size it was built for and the number of the build.
CacheGet(cache, built, dir, s) ==
    IF cache[s] = << >>
    THEN LET p == [size |-> s, build |-> built[s] + 1,
                   palette |-> BuildEmojiPalette(dir, s)]
         IN  [cache |-> [cache EXCEPT ![s] = <<p>>],
              builds |-> [built EXCEPT ![s] = built[s] + 1],
              cached |-> p]
    ELSE [cache |-> cache, builds |-> built, cached |-> cache[s][1]]

\* line 316: palette_colors, palette_images = get_palette_for_size(size)
GetPaletteForSize(t) ==
    /\ fpc[t] = "palette"
    /\ LET got == CacheGet(palette_cache, builds, emojis_dir, freq[t][1].size)
       IN  /\ palette_cache' = got.cache
           /\ builds' = got.builds
           /\ fpal' = [fpal EXCEPT ![t] = <<got.cached>>]
    /\ fpc' = [fpc EXCEPT ![t] = "render"]
    /\ UNCHANGED <<renderVars, clampVars, sharedVars,
                   quantVars, jobVars, emojis_dir, freq, fres>>

\* line 317-329: mosaic_image on the frame at zoom 1; an exception leaves the
\* handler (response 500), else the JPEG is returned
FrameRender(t) ==
    /\ fpc[t] = "render"
    /\ LET p == fpal[t][1].palette
           b == BuildEmojiGrid(Frame, freq[t][1].size, p.colors)
       IN  fres' = [fres EXCEPT ![t] = IF b.ok THEN "200" ELSE "500"]
    /\ fpc' = [fpc EXCEPT ![t] = "idle"]
    /\ UNCHANGED <<renderVars, clampVars, sharedVars,
                   quantVars, jobVars, emojis_dir, palette_cache,
                   builds, freq, fpal>>

NextFrames ==
    \E t \in Threads :
        FrameMissing(t) \/ FrameParse(t) \/ GetPaletteForSize(t) \/ FrameRender(t)

SpecFrames == InitFrames /\ [][NextFrames]_vars

(***************************************************************************)
(* The job queue: /process, the worker thread, /status and /download.      *)
(***************************************************************************)
ImageFormats == {"png", "jpg", "jpeg"}
VideoFormats == {"mp4", "gif"}

\* Job.__init__
NewJob(fps, s, out_format, media_kind) ==
    [fps |-> fps, size |-> s, out_format |-> out_format,
     media_kind |-> media_kind, status |-> "queued", progress |-> 0,
     output_path |-> ""]

InitJobs ==
    /\ jobs = << >>
    /\ job_queue = << >>
    /\ putting = {}
    /\ enqueued = << >>
    /\ wpc = "get"
    /\ cur = 0
    /\ RenderIdle /\ QuantIdle /\ FramesIdle /\ ClampIdle /\ SharedIdle

\* A request to /process: upload tells whether it carries a file and a file
\* name, kind what detect_media_kind makes of the file, fmt is the "format"
\* field, long whether a video lasts more than 15 seconds, raw the fps and
\* size fields.
Request(upload, kind, fmt, long, raw) ==
    [upload |-> upload, kind |-> kind, fmt |-> fmt, long |-> long, raw |-> raw]

\* The requests /process is tried with.
Requests ==
    LET default == <<Unparsable, Unparsable>>
        extreme == <<Literal(0), Literal(100)>>
    IN  { Request("missing", "unknown", "", FALSE, default),
          Request("unnamed", "unknown", "", FALSE, default),
          Request("file", "unknown", "", FALSE, default),
          Request("file", "image", "", FALSE, default),
          Request("file", "image", "jpg", FALSE, default),
          Request("file", "image", "jpeg", FALSE, extreme),
          Request("file", "image", "gif", FALSE, default),
          Request("file", "video", "", FALSE, default),
          Request("file", "video", "gif", FALSE, extreme),
          Request("file", "video", "png", FALSE, default),
          Request("file", "video", "mp4", TRUE, default) }

\* line 232-263: the checks of /process in their order; code 400 for an
\* error response, else the Job that line 263 creates
ProcessOutcome(req) ==
    LET fps == ProcessFps(req.raw[1])
        s == ProcessSize(req.raw[2])
        out_format == IF req.fmt # "" THEN req.fmt
                      ELSE IF req.kind = "video" THEN "mp4" ELSE "png"
        rejected == [code |-> 400, job |-> << >>]
    IN  IF req.upload # "file" THEN rejected
        ELSE IF req.kind = "unknown" THEN rejected
        ELSE IF req.kind = "video" /\ out_format \notin VideoFormats THEN rejected
        ELSE IF req.kind = "video" /\ req.long THEN rejected
        ELSE IF req.kind = "image" /\ out_format \notin ImageFormats THEN rejected
        ELSE [code |-> 200, job |-> <<NewJob(fps, s, out_format, req.kind)>>]

\* /process answers with an error response: nothing changes
ProcessRejected ==
    /\ \E req \in Requests : ProcessOutcome(req).code = 400
    /\ UNCHANGED vars

\* line 263-264: /process accepts: the job is created and registered; its
\* id is its place in creation order
ProcessRegister ==
    /\ Len(jobs) < MaxJobs
    /\ \E req \in Requests :
          /\ ProcessOutcome(req).code = 200
          /\ jobs' = Append(jobs, ProcessOutcome(req).job[1])
    /\ putting' = putting \cup {Len(jobs) + 1}
    /\ UNCHANGED <<renderVars, clampVars, sharedVars,
                   quantVars, frameVars, job_queue, enqueued, wpc,
                   cur>>

\* line 265-267: the handler puts its job on the queue and answers; handlers
\* run in threads of their own, so another request may be served in between
ProcessPut ==
    /\ \E job_id \in putting :
          /\ job_queue' = Append(job_queue, job_id)
          /\ enqueued' = Append(enqueued, job_id)
          /\ putting' = putting \ {job_id}
    /\ UNCHANGED <<renderVars, clampVars, sharedVars,
                   quantVars, frameVars, jobs, wpc, cur>>

\* Mutant: the queue hands out its newest entry.
QueueGet_Newest(q) ==
    [item |-> q[Len(q)], rest |-> SubSeq(q, 1, Len(q) - 1)]

\* queue.Queue.get on a non-empty queue
QueueGet(q) == [item |-> Head(q), rest |-> Tail(q)]

\* line 215: job = job_queue.get(), blocking while the queue is empty
WorkerGet ==
    /\ wpc = "get"
    /\ job_queue # << >>
    /\ cur' = QueueGet(job_queue).item
    /\ job_queue' = QueueGet(job_queue).rest
    /\ wpc' = "start"
    /\ UNCHANGED <<renderVars, clampVars, sharedVars,
                   quantVars, frameVars, jobs, putting, enqueued>>

SetJob(field, value) == [jobs EXCEPT ![cur][field] = value]
WorkerStep(next) ==
    /\ wpc' = next
    /\ UNCHANGED <<renderVars, clampVars, sharedVars,
                   quantVars, frameVars, job_queue, putting,
                   enqueued, cur>>

\* line 101-103
RunJobStart ==
    /\ wpc = "start"
    /\ jobs' = [jobs EXCEPT ![cur].status = "processing", ![cur].progress = 10]
    /\ WorkerStep("render")

\* line 110-111, then the mosaic subprocess is running
RunJobRendering ==
    /\ wpc = "render"
    /\ jobs' = SetJob("progress", 30)
    /\ WorkerStep("subprocess")

\* line 130-134 and 156-163, 193-195: the mosaic subprocess has returned
RunJobSubprocess ==
    /\ wpc = "subprocess"
    /\ \E returncode \in {0, 1} :
          IF returncode # 0
          THEN /\ jobs' = SetJob("status", "error")
               /\ WorkerStep("task_done")
          ELSE IF jobs[cur].media_kind = "image"
          THEN /\ jobs' = SetJob("progress", 85)
               /\ WorkerStep("image_output")
          ELSE IF jobs[cur].out_format = "gif"
          THEN /\ jobs' = SetJob("progress", 80)
               /\ WorkerStep("gif")
          ELSE /\ jobs' = [jobs EXCEPT ![cur].progress = 80,
                                       ![cur].output_path = "output.mp4"]
               /\ WorkerStep("finish")

\* line 135-139: the JPEG conversion may raise
RunJobImageOutput ==
    /\ wpc = "image_output"
    /\ IF jobs[cur].out_format \in {"jpg", "jpeg"}
       THEN \/ /\ jobs' = SetJob("output_path", "output.jpg")
               /\ WorkerStep("finish")
            \/ /\ jobs' = jobs
               /\ WorkerStep("raised")
       ELSE /\ jobs' = SetJob("output_path", "output.png")
            /\ WorkerStep("finish")

\* Mutant: the return after "GIF encoding failed" is missing.
RunJobGif_NoReturn ==
    /\ wpc = "gif"
    /\ \/ /\ jobs' = SetJob("output_path", "output.gif")
          /\ WorkerStep("finish")
       \/ /\ jobs' = SetJob("status", "error")
          /\ WorkerStep("finish")
       \/ /\ jobs' = jobs
          /\ WorkerStep("raised")

\* line 164-191: the two ffmpeg calls; subprocess.run raises when the
\* executable is missing
RunJobGif ==
    /\ wpc = "gif"
    /\ \/ /\ jobs' = SetJob("output_path", "output.gif")
          /\ WorkerStep("finish")
       \/ /\ jobs' = SetJob("status", "error")
          /\ WorkerStep("task_done")
       \/ /\ jobs' = jobs
          /\ WorkerStep("raised")

\* line 197
RunJobDone ==
    /\ wpc = "finish"
    /\ jobs' = SetJob("status", "done")
    /\ WorkerStep("finished")

\* line 198-199
RunJobProgress100 ==
    /\ wpc = "finished"
    /\ jobs' = SetJob("progress", 100)
    /\ WorkerStep("task_done")

\* line 218-219 after run_job returned: task_done, back to the loop head
WorkerTaskDone ==
    /\ wpc = "task_done"
    /\ wpc' = "get"
    /\ cur' = 0
    /\ UNCHANGED <<renderVars, clampVars, sharedVars,
                   quantVars, frameVars, jobs, job_queue, putting,
                   enqueued>>

\* line 216-219 after run_job raised: task_done in the finally clause, then
\* the exception leaves worker() and the thread ends
WorkerDies ==
    /\ wpc = "raised"
    /\ wpc' = "dead"
    /\ UNCHANGED <<renderVars, clampVars, sharedVars,
                   quantVars, frameVars, jobs, job_queue, putting,
                   enqueued, cur>>

\* the ids a request may name: those of the jobs, and 0 for an id no job has
RequestIds == 0..MaxJobs

\* line 270-281: /status reads the job and changes nothing
Status ==
    /\ \E job_id \in RequestIds : TRUE
    /\ UNCHANGED vars

\* Mutant: the status of the job is not looked at.
DownloadOutcome_NoStatusCheck(job_id) ==
    IF job_id \notin DOMAIN jobs
    THEN [code |-> 400, file |-> ""]
    ELSE [code |-> 200, file |-> jobs[job_id].output_path]

\* line 284-294: the response of /download for a job id: code 400 ("Not
\* ready") or the file at the job's output_path
DownloadOutcome(job_id) ==
    IF job_id \notin DOMAIN jobs \/ jobs[job_id].status # "done"
    THEN [code |-> 400, file |-> ""]
    ELSE [code |-> 200, file |-> jobs[job_id].output_path]

\* /download reads the job and changes nothing
Download ==
    /\ \E job_id \in RequestIds : DownloadOutcome(job_id).code \in {200, 400}
    /\ UNCHANGED vars

NextJobs ==
    \/ ProcessRejected \/ ProcessRegister \/ ProcessPut \/ Status \/ Download
    \/ WorkerGet \/ RunJobStart \/ RunJobRendering \/ RunJobSubprocess
    \/ RunJobImageOutput \/ RunJobGif \/ RunJobDone \/ RunJobProgress100
    \/ WorkerTaskDone \/ WorkerDies

SpecJobs == InitJobs /\ [][NextJobs]_vars

\* the steps of the worker thread
WorkerNext ==
    \/ WorkerGet \/ RunJobStart \/ RunJobRendering \/ RunJobSubprocess
    \/ RunJobImageOutput \/ RunJobGif \/ RunJobDone \/ RunJobProgress100
    \/ WorkerTaskDone \/ WorkerDies

\* The worker thread is scheduled fairly and every subprocess call returns; a
\* handler that registered its job goes on to put it on the queue.
SpecJobsFair == SpecJobs /\ WF_vars(WorkerNext) /\ WF_vars(ProcessPut)

(***************************************************************************)
(* clamp_int at its call sites in /process and /process_frame.             *)
(***************************************************************************)
\* the values a form field may hold: absent or no integer literal, or an
\* integer literal
FormValues == {Unparsable} \cup {Literal(n) : n \in (0 - MaxRaw)..MaxRaw}

\* the calls of clamp_int: the lines 239, 240, 303 and 304
CallSites ==
    {"process.fps", "process.size", "process_frame.size",
     "process_frame.max_block"}

\* the minimum, maximum and default each call passes
ClampArgs(site) ==
    CASE site = "process.fps" -> [minimum |-> 1, maximum |-> 30, default |-> 8]
      [] site = "process.size" -> [minimum |-> 4, maximum |-> 48, default |-> 12]
      [] site = "process_frame.size" ->
            [minimum |-> 4, maximum |-> 48, default |-> 12]
      [] site = "process_frame.max_block" ->
            [minimum |-> 1, maximum |-> 20, default |-> 8]

InitClamp ==
    /\ form_value \in FormValues
    /\ call_site \in CallSites
    /\ clamped = << >>
    /\ RenderIdle /\ QuantIdle /\ FramesIdle /\ JobsIdle /\ SharedIdle

\* the call returns what the handler will pass on
ClampCall ==
    /\ clamped = << >>
    /\ clamped' =
          <<CASE call_site = "process.fps" -> ProcessFps(form_value)
              [] call_site = "process.size" -> ProcessSize(form_value)
              [] call_site = "process_frame.size" -> FrameSize(form_value)
              [] call_site = "process_frame.max_block" ->
                    FrameMaxBlock(form_value)>>
    /\ UNCHANGED <<renderVars, quantVars, frameVars, jobVars, sharedVars,
                   form_value, call_site>>

NextClamp == ClampCall

SpecClamp == InitClamp /\ [][NextClamp]_vars

(***************************************************************************)
(* Several calls of mosaic_image over one palette: the frames of a video   *)
(* rendered one after the other (video_emojisaic.py:175-178) and           *)
(* /process_frame handlers running side by side (app.py:316-324).  Each    *)
(* call has its arguments and local variables in calls[call]; the palette  *)
(* is the one object all of them are handed.                               *)
(***************************************************************************)
\* Mutant: resize changes the image it is called on.
ImageResize_InPlace(image, target) ==
    [self |-> [image EXCEPT !.side = target],
     result |-> [image EXCEPT !.side = target]]

\* line 112: emoji.resize((target_size, target_size), Image.LANCZOS) returns
\* a resized copy; self is the image the method was called on, afterwards
ImageResize(image, target) ==
    [self |-> image, result |-> [image EXCEPT !.side = target]]

SharedSizes == {1, 2}
SharedZooms == {1, 2}
SharedBlocks == {1, 2}

\* line 144, app.py line 206: the palette built once for tile size s from a
\* library of a white and a black tile
SharedPaletteFor(s) ==
    LET p == BuildEmojiPalette({f \in TileFiles : f.visible}, s)
    IN  [size |-> s, colors |-> p.colors, images |-> p.images]

\* a frame of 2 x 2 regions of s x s pixels with the given region means
FrameOf(s, a, b, c, d) ==
    [w |-> 2 * s, h |-> 2 * s,
     mean |-> (<<0, 0>> :> a @@ <<0, 1>> :> b @@ <<1, 0>> :> c @@ <<1, 1>> :> d)]

\* the frames rendered: a uniform one, which merges into one block, and two
\* with unmerged cells of either tile
SharedFrames(s) ==
    { FrameOf(s, Dark, Dark, Dark, Dark),
      FrameOf(s, Dark, Light, Light, Light),
      FrameOf(s, Light, Dark, Dark, Dark) }

\* line 92: the arguments of a call, its local variables not yet bound
StartCall(image, z, block) ==
    [img |-> image, zoom |-> z, max_emoji_block |-> block,
     rows |-> 0, cols |-> 0, grid |-> << >>, covered |-> << >>,
     row |-> 0, col |-> 0, plan |-> << >>, pastes |-> << >>, out |-> << >>,
     pc |-> "start"]

\* line 93-94 in a call with locals l
StepBuildGrid(l, pal) ==
    LET b == BuildEmojiGrid(l.img, pal.size, pal.colors)
    IN  IF b.ok
        THEN [l EXCEPT !.rows = b.rows, !.cols = b.cols, !.grid = b.grid,
                       !.pc = "canvas"]
        ELSE [l EXCEPT !.pc = "error"]

\* line 95-98
StepNewCanvas(l, pal) ==
    LET w == CanvasWidth(l.cols, pal.size, l.zoom)
        h == CanvasHeight(l.rows, pal.size, l.zoom)
    IN  IF w < 0 \/ h < 0 THEN [l EXCEPT !.pc = "error"]
        ELSE [l EXCEPT !.out = <<[w |-> w, h |-> h]>>,
                       !.covered = [cell \in Cells(l.rows, l.cols) |-> FALSE],
                       !.row = 0, !.col = 0,
                       !.pc = IF l.rows >= 1 THEN "while" ELSE "done"]

\* line 100 false, then line 98 or line 116
StepEndRow(l) ==
    IF l.row + 1 < l.rows
    THEN [l EXCEPT !.row = l.row + 1, !.col = 0]
    ELSE [l EXCEPT !.pc = "done"]

\* line 105-114: the locals after the placement and the palette images
\* after it
StepPlace(l, pal) ==
    LET emoji_index == l.grid[<<l.row, l.col>>]
        side == LargestUniformSquare(l.grid, l.covered, l.rows, l.cols, l.row,
                                     l.col, emoji_index, l.max_emoji_block)
        marked == MarkCovered(l.covered, l.rows, l.cols, l.row, l.col, side)
        emoji == pal.images[emoji_index + 1]
        target_size == TargetSize(side, pal.size, l.zoom)
        resized == side # 1 \/ l.zoom # 1
        resize == ImageResize(emoji, target_size)
        pasted == IF resized THEN resize.result ELSE emoji
    IN  IF resized /\ target_size < 1
        THEN [local |-> [l EXCEPT !.covered = marked, !.pc = "error"],
              images |-> pal.images]
        ELSE [local |->
                 [l EXCEPT !.covered = marked,
                           !.plan = Append(l.plan,
                                       [r |-> l.row, c |-> l.col,
                                        v |-> emoji_index, side |-> side]),
                           !.pastes = Append(l.pastes,
                                         [x |-> l.col * pal.size * l.zoom,
                                          y |-> l.row * pal.size * l.zoom,
                                          px |-> pasted.side,
                                          resized |-> resized]),
                           !.col = NextCol(l.col, side)],
              images |-> IF resized
                         THEN [pal.images EXCEPT ![emoji_index + 1] = resize.self]
                         ELSE pal.images]

\* one step of a call of mosaic_image with locals l over palette pal
MosaicImageStep(l, pal) ==
    CASE l.pc = "start" -> [local |-> StepBuildGrid(l, pal), images |-> pal.images]
      [] l.pc = "canvas" ->
            [local |-> StepNewCanvas(l, pal), images |-> pal.images]
      [] l.pc = "while" /\ l.col >= l.cols ->
            [local |-> StepEndRow(l), images |-> pal.images]
      [] l.pc = "while" /\ l.col < l.cols /\ l.covered[<<l.row, l.col>>] ->
            [local |-> [l EXCEPT !.col = l.col + 1], images |-> pal.images]
      [] l.pc = "while" /\ l.col < l.cols /\ ~l.covered[<<l.row, l.col>>] ->
            StepPlace(l, pal)

\* mosaic_image run from locals l to its return or exception, nothing else
\* running
RECURSIVE MosaicImage(_, _)
MosaicImage(l, pal) ==
    IF l.pc \in {"done", "error"} THEN l
    ELSE LET step == MosaicImageStep(l, pal)
         IN  MosaicImage(step.local, [pal EXCEPT !.images = step.images])

Calls == 1..MaxCalls

InitShared ==
    /\ \E s \in SharedSizes, z \in SharedZooms, block \in SharedBlocks :
          /\ shared_palette = SharedPaletteFor(s)
          /\ calls \in [Calls -> {StartCall(image, z, block) :
                                      image \in SharedFrames(s)}]
    /\ RenderIdle /\ QuantIdle /\ FramesIdle /\ JobsIdle /\ ClampIdle

\* a running call makes its next step
CallStep(f) ==
    /\ calls[f].pc \notin {"done", "error"}
    /\ LET step == MosaicImageStep(calls[f], shared_palette)
       IN  /\ calls' = [calls EXCEPT ![f] = step.local]
           /\ shared_palette' = [shared_palette EXCEPT !.images = step.images]
    /\ UNCHANGED <<renderVars, quantVars, frameVars, jobVars, clampVars>>

\* line 175-178, app.py line 317: the call has returned; the next frame is
\* rendered with the same palette
NextFrame(f) ==
    /\ calls[f].pc = "done"
    /\ \E image \in SharedFrames(shared_palette.size) :
          calls' = [calls EXCEPT ![f] = StartCall(image, calls[f].zoom,
                                                  calls[f].max_emoji_block)]
    /\ UNCHANGED <<renderVars, quantVars, frameVars, jobVars, clampVars,
                   shared_palette>>

NextShared == \E f \in Calls : CallStep(f) \/ NextFrame(f)

SpecShared == InitShared /\ [][NextShared]_vars

(***************************************************************************)
(* Properties of the merge loop.                                           *)
(***************************************************************************)
Footprint(p) == Block(p.r, p.c, p.side)
Placements == {plan[i] : i \in 1..Len(plan)}
\* how many emitted placements have the cell in their footprint
TimesClaimed(cell) ==
    Cardinality({i \in 1..Len(plan) : cell \in Footprint(plan[i])})
\* the placement a Place step has just appended
Emitted(before, after) == Len(after) = Len(before) + 1
ValidRender == size >= 1 /\ zoom >= 1 /\ Len(palette_colors) >= 1

\* C1: for every grid (rows, cols >= 1) and every maxSide >= 1, when the merge
\* loop has finished the coverage mask is all true and every grid cell lies in
\* the footprint of exactly one emitted placement.
C1_CoverageExactlyOnce ==
    (pc = "done" /\ max_emoji_block >= 1 /\ rows >= 1 /\ cols >= 1) =>
        \A cell \in Cells(rows, cols) :
            covered[cell] /\ TimesClaimed(cell) = 1

\* a finished 3 x 3 render holding a merged block and a cell below it
C1_Witness ==
    /\ pc = "done" /\ max_emoji_block >= 2 /\ rows = 3 /\ cols = 3
    /\ \E p \in Placements : p.side = 2 /\ p.r = 0 /\ p.c = 1
    /\ \E p \in Placements : p.side = 1 /\ p.r = 1 /\ p.c = 0

\* C2: every placement emitted with maxSide >= 1 has 1 <= side <= maxSide and
\* a footprint inside the grid, and at the step that emits it none of its
\* footprint cells is covered yet.
C2_InsideGrid ==
    max_emoji_block >= 1 =>
        \A p \in Placements :
            /\ 1 <= p.side /\ p.side <= max_emoji_block
            /\ p.r + p.side <= rows /\ p.c + p.side <= cols
            /\ p.r >= 0 /\ p.c >= 0

C2_FreshFootprint ==
    (max_emoji_block >= 1 /\ Emitted(plan, plan')) =>
        \A cell \in Footprint(plan'[Len(plan')]) :
            cell \in Cells(rows, cols) /\ ~covered[cell] /\ covered'[cell]

C2_PlacementSafe == [](C2_InsideGrid) /\ [][C2_FreshFootprint]_vars

\* a side-2 block was emitted next to an earlier placement
C2_Witness ==
    /\ max_emoji_block = 2 /\ Len(plan) >= 2
    /\ plan[Len(plan)].side = 2 /\ plan[Len(plan)].c >= 1

\* C3: with maxSide = 1 the merge loop emits exactly rows * cols placements,
\* each of side 1, one per cell, each carrying that cell's palette index.
C3_NoMerging ==
    max_emoji_block = 1 =>
        /\ \A p \in Placements :
              /\ p.side = 1
              /\ <<p.r, p.c>> \in Cells(rows, cols)
              /\ p.v = grid[<<p.r, p.c>>]
        /\ \A i, j \in 1..Len(plan) :
              (plan[i].r = plan[j].r /\ plan[i].c = plan[j].c) => i = j
        /\ pc = "done" =>
              /\ Len(plan) = rows * cols
              /\ {<<p.r, p.c>> : p \in Placements} = Cells(rows, cols)

\* a finished unmerged render of a uniform 2 x 2 area
C3_Witness ==
    /\ pc = "done" /\ max_emoji_block = 1 /\ rows >= 2 /\ cols >= 2
    /\ Len(plan) = rows * cols
    /\ grid[<<0, 0>>] = grid[<<0, 1>>] /\ grid[<<0, 0>>] = grid[<<1, 0>>]
    /\ grid[<<0, 0>>] = grid[<<1, 1>>]

\* C10: the side of every placement emitted with maxSide >= 1 is the largest
\* s in 1..min(maxSide, rows - r, cols - c) whose s x s block at the anchor is
\* uniformly v and holds no cell covered at the time of the search.
C10_Step ==
    (max_emoji_block >= 1 /\ Emitted(plan, plan')) =>
        LET p == plan'[Len(plan')]
            limit == Min(max_emoji_block, Min(rows - p.r, cols - p.c))
        IN  /\ p.r = row /\ p.c = col /\ p.v = grid[<<row, col>>]
            /\ 1 <= p.side /\ p.side <= limit
            /\ BlockFree(grid, covered, p.r, p.c, p.v, p.side)
            /\ \A s \in (p.side + 1)..limit :
                  ~BlockFree(grid, covered, p.r, p.c, p.v, s)

C10_LargestSide == [][C10_Step]_vars

\* a side-1 placement whose uniform 2 x 2 block was refused only because an
\* earlier placement covers part of it, beside a merged block
C10_Witness ==
    /\ max_emoji_block >= 2
    /\ \E p \in Placements : p.side = 2
    /\ \E p \in Placements :
          /\ p.side = 1 /\ p.r + 2 <= rows /\ p.c + 2 <= cols
          /\ \A cell \in Block(p.r, p.c, 2) : grid[cell] = p.v

(***************************************************************************)
(* Properties of the grid shape, the canvas and the input checks.          *)
(***************************************************************************)
\* n is the ceiling of a / b, for b >= 1
IsCeil(n, a, b) == n * b >= a /\ (n - 1) * b < a

\* C6: for an image of w x h pixels (w, h >= 1), S >= 1 and zoom >= 1 the grid
\* has rows = ceil(h / S) and cols = ceil(w / S) and the canvas is
\* cols * S * zoom wide and rows * S * zoom high; a 64 x 64 image with S = 8
\* gives an 8 x 8 grid and a 64 x 64 canvas at zoom 1, 128 x 128 at zoom 2.
C6_GridAndCanvasSize ==
    (size >= 1 /\ zoom >= 1 /\ pc \in {"canvas", "while", "done"}) =>
        /\ IsCeil(rows, img.h, size) /\ IsCeil(cols, img.w, size)
        /\ DOMAIN grid = Cells(rows, cols)
        /\ pc # "canvas" =>
              /\ Len(out) = 1
              /\ out[1].w = cols * size * zoom /\ out[1].h = rows * size * zoom
        /\ (img.w = 64 /\ img.h = 64 /\ size = 8) =>
              /\ rows = 8 /\ cols = 8
              /\ (pc = "done" /\ zoom = 1) => out = <<[w |-> 64, h |-> 64]>>
              /\ (pc = "done" /\ zoom = 2) => out = <<[w |-> 128, h |-> 128]>>

\* the 64 x 64 image rendered at S = 8, zoom = 2, and returned
C6_Witness ==
    /\ pc = "done" /\ img.w = 64 /\ img.h = 64 /\ size = 8 /\ zoom = 2
    /\ out = <<[w |-> 128, h |-> 128]>>

\* a clipped last column: 3 pixels wide at S = 2 gives 2 columns
C6_WitnessClipped ==
    pc = "done" /\ img.w = 3 /\ size = 2 /\ cols = 2 /\ out[1].w = 4 * zoom

\* C7 as stated: a render with a non-positive tile size, max block side or
\* zoom fails at once: no placement is emitted and no canvas is returned.
C7_InvalidInputRejected ==
    (size <= 0 \/ zoom <= 0 \/ max_emoji_block <= 0) =>
        (plan = << >> /\ pc # "done")

\* C7 as the code behaves: with a non-positive tile size or zoom no placement
\* is ever emitted or pasted; a tile size of 0 fails in the grid-shape
\* computation and a non-positive zoom (with a valid tile size) fails at the
\* canvas or the first resize, so no canvas is returned.  A non-positive max
\* block side is not rejected: with valid size, zoom and palette the render
\* never fails, every placement has side 1 and the finished plan has
\* rows * cols of them, one per cell, and the canvas is returned.
C7_NonPositiveInputs ==
    /\ (size <= 0 \/ zoom <= 0) => (plan = << >> /\ pastes = << >>)
    /\ size = 0 => pc \in {"start", "error"}
    /\ (size >= 1 /\ zoom <= 0) => pc # "done"
    /\ (max_emoji_block <= 0 /\ ValidRender) =>
          /\ pc # "error"
          /\ \A p \in Placements : p.side = 1 /\ p.v = grid[<<p.r, p.c>>]
          /\ pc = "done" =>
                /\ Len(out) = 1
                /\ Len(plan) = rows * cols
                /\ \A cell \in Cells(rows, cols) : TimesClaimed(cell) = 1

\* a render with max block side 0 that returned a canvas of four placements
C7_Witness ==
    /\ max_emoji_block = 0 /\ pc = "done" /\ Len(out) = 1
    /\ Len(plan) = 4 /\ rows = 2 /\ cols = 2

\* a render with zoom 0 that failed in its first placement
C7_WitnessZoom ==
    zoom = 0 /\ size >= 1 /\ pc = "error" /\ Len(out) = 1 /\ plan = << >>

(***************************************************************************)
(* Properties of nearest_emoji_index.                                      *)
(***************************************************************************)
\* the squared distance of palette index i (0-based) to the region colour
DistanceOf(i) == SqDist(palette_colors[i + 1], color)
PaletteIndices == 0..(Len(palette_colors) - 1)

\* C4: for a non-empty palette the returned index has minimal squared
\* Euclidean distance to the region colour, and is the lowest index among
\* those at that minimal distance.
C4_NearestLowestIndex ==
    (qpc = "returned" /\ Len(palette_colors) >= 1) =>
        /\ Len(nearest) = 1
        /\ nearest[1] \in PaletteIndices
        /\ \A j \in PaletteIndices : DistanceOf(nearest[1]) <= DistanceOf(j)
        /\ \A j \in PaletteIndices :
              j < nearest[1] => DistanceOf(j) > DistanceOf(nearest[1])

\* a tie between two different colours, won by the lower, non-first index
C4_Witness ==
    /\ qpc = "returned" /\ Len(palette_colors) = 3 /\ nearest = <<1>>
    /\ DistanceOf(2) = DistanceOf(1)
    /\ palette_colors[3] # palette_colors[2]

BlackIndex == CHOOSE i \in PaletteIndices : palette_colors[i + 1] = Black
WhiteIndex == CHOOSE i \in PaletteIndices : palette_colors[i + 1] = White
TwoTilePalette == palette_colors \in {<<Black, White>>, <<White, Black>>}

\* C5 as stated: under the black/white palette, in either order, (127,127,127)
\* is an exact tie and quantizes to index 0; (10,10,10) quantizes to the black
\* tile and (250,250,250) to the white tile.
C5_MidIsTie ==
    (qpc = "returned" /\ TwoTilePalette) =>
        /\ color = Mid => (SqDist(Black, Mid) = SqDist(White, Mid)
                            /\ nearest = <<0>>)
        /\ color = Dark => nearest = <<BlackIndex>>
        /\ color = Light => nearest = <<WhiteIndex>>

\* C5 as the code behaves: (127,127,127) is no tie, it is strictly nearer to
\* black (3 * 127^2 = 48387 < 3 * 128^2 = 49152) and quantizes to the black
\* tile in either palette order; (10,10,10) quantizes to the black tile and
\* (250,250,250) to the white tile.
C5_MidIsBlack ==
    (qpc = "returned" /\ TwoTilePalette) =>
        /\ color = Mid => (SqDist(Black, Mid) = 48387 /\ SqDist(White, Mid) = 49152
                            /\ nearest = <<BlackIndex>>)
        /\ color = Dark => nearest = <<BlackIndex>>
        /\ color = Light => nearest = <<WhiteIndex>>

\* (127,127,127) quantized to black at index 1 of the white-first palette
C5_Witness ==
    /\ qpc = "returned" /\ palette_colors = <<White, Black>>
    /\ color = Mid /\ nearest = <<1>>

(***************************************************************************)
(* Properties of the palette builder and the cache.                        *)
(***************************************************************************)
CachedPalettes ==
    {palette_cache[s][1] : s \in {x \in DOMAIN palette_cache : palette_cache[x] # << >>}}
HandedPalettes == {fpal[t][1] : t \in {x \in Threads : fpal[x] # << >>}}

\* C8 as stated: building a palette from a tile directory without usable
\* images fails, hence every palette returned by the builder and every
\* palette stored in the size-keyed cache is non-empty.
C8_PaletteNonEmpty ==
    \A p \in CachedPalettes \cup HandedPalettes : Len(p.palette.colors) >= 1

\* C8 as the code behaves: the builder never fails; it returns one colour and
\* one image per png of the directory, so an empty directory yields an empty
\* palette, which the cache stores and hands out; the render of a frame with
\* an empty palette then fails, and with a non-empty palette it succeeds.
C8_PaletteMirrorsDirectory ==
    /\ \A p \in CachedPalettes \cup HandedPalettes :
          /\ Len(p.palette.colors) = Cardinality(emojis_dir)
          /\ Len(p.palette.images) = Cardinality(emojis_dir)
    /\ \A t \in Threads :
          /\ fres[t] = "500" => emojis_dir = {}
          /\ fres[t] = "200" => emojis_dir # {}
          /\ (fpc[t] = "idle" /\ freq[t] # << >> /\ emojis_dir = {}) =>
                fres[t] = "500"

\* an empty palette sits in the cache and a frame render has failed on it
C8_Witness ==
    /\ emojis_dir = {}
    /\ \E p \in CachedPalettes : Len(p.palette.colors) = 0
    /\ \E t \in Threads : fres[t] = "500"

(***************************************************************************)
(* Properties of the job queue.                                            *)
(***************************************************************************)
JobIds == DOMAIN jobs
Processing == {j \in JobIds : jobs[j].status = "processing"}

C9_OneProcessing == Cardinality(Processing) <= 1

\* a job leaves "queued" only when it was put on the queue and every job put
\* before it has left "queued"
C9_FifoStep ==
    \A j \in JobIds :
        (jobs[j].status = "queued" /\ jobs'[j].status # "queued") =>
            \E k \in 1..Len(enqueued) :
                /\ enqueued[k] = j
                /\ \A i \in 1..(k - 1) : jobs[enqueued[i]].status # "queued"

\* C9: at most one job has status "processing" in every reachable state, and
\* jobs leave status "queued" in the order in which /process enqueued them,
\* under every interleaving of request handlers and the worker.
C9_SerializedFifo == [](C9_OneProcessing) /\ [][C9_FifoStep]_vars

\* the job created first was put second; the other one was processed first
\* and the worker now processes it
C9_Witness ==
    /\ enqueued = <<2, 1>>
    /\ jobs[2].status \in {"done", "error"}
    /\ jobs[1].status = "processing"
    /\ cur = 1

(***************************************************************************)
(* Properties of the loop order, the pasted pixels and termination.        *)
(***************************************************************************)
Anchor(p) == <<p.r, p.c>>
\* cell a comes before cell b in row-major order
RowMajorBefore(a, b) == a[1] < b[1] \/ (a[1] = b[1] /\ a[2] < b[2])

\* the anchors of the plan increase strictly in row-major order and none lies
\* in the footprint of an earlier placement
C11_AnchorsIncrease ==
    \A i, j \in 1..Len(plan) :
        i < j => /\ RowMajorBefore(Anchor(plan[i]), Anchor(plan[j]))
                 /\ Anchor(plan[j]) \notin Footprint(plan[i])

\* the step that emits a placement: its anchor is the cursor cell, which is
\* the first cell in row-major order not yet covered, and the cursor moves to
\* c + side on the same row
C11_EmitStep ==
    Emitted(plan, plan') =>
        LET p == plan'[Len(plan')]
        IN  /\ Anchor(p) = <<row, col>>
            /\ ~covered[Anchor(p)]
            /\ \A cell \in Cells(rows, cols) :
                  RowMajorBefore(cell, Anchor(p)) => covered[cell]
            /\ row' = row /\ col' = p.c + p.side

\* a covered cell under the cursor is skipped: no placement, next column
C11_SkipStep ==
    (pc = "while" /\ col < cols /\ covered[<<row, col>>]) =>
        (plan' = plan /\ row' = row /\ col' = col + 1)

\* C11: placements are emitted in strictly increasing row-major order of their
\* anchors; each anchor is, when emitted, the first cell in row-major order
\* that is not covered; covered cells are skipped and never become an anchor;
\* after a placement the column cursor is c + side on the same row.
C11_RowMajorOrder ==
    [](C11_AnchorsIncrease) /\ [][C11_EmitStep /\ C11_SkipStep]_vars

\* a side-2 block at the origin, then the cell right of it, then in the next
\* row two skipped cells and a placement behind them
C11_Witness ==
    /\ Len(plan) = 3 /\ iterations = 5
    /\ Anchor(plan[1]) = <<0, 0>> /\ plan[1].side = 2
    /\ Anchor(plan[2]) = <<0, 2>>
    /\ Anchor(plan[3]) = <<1, 2>>

\* the pixels a paste writes: a square of side px at offset (x, y)
PixelFootprint(paste) ==
    (paste.x..(paste.x + paste.px - 1)) \X (paste.y..(paste.y + paste.px - 1))
CanvasPixels == (0..(out[1].w - 1)) \X (0..(out[1].h - 1))
Overlap(a, b) ==
    /\ a.x < b.x + b.px /\ b.x < a.x + a.px
    /\ a.y < b.y + b.px /\ b.y < a.y + a.px

\* C12: for S >= 1 and zoom >= 1 the paste of placement (r, c, v, side) is a
\* square of pixel side side * S * zoom at offset (c * S * zoom, r * S * zoom),
\* the tile being used unresized exactly when side * zoom = 1; the pixel
\* footprints lie inside the canvas and are pairwise disjoint, and those of a
\* finished render cover every canvas pixel exactly once.
C12_PixelFootprints ==
    (size >= 1 /\ zoom >= 1) =>
        /\ Len(pastes) = Len(plan)
        /\ \A i \in 1..Len(plan) :
              /\ pastes[i].px = plan[i].side * size * zoom
              /\ pastes[i].x = plan[i].c * size * zoom
              /\ pastes[i].y = plan[i].r * size * zoom
              /\ pastes[i].resized <=> (plan[i].side * zoom # 1)
              /\ pastes[i].x >= 0 /\ pastes[i].y >= 0
              /\ pastes[i].x + pastes[i].px <= out[1].w
              /\ pastes[i].y + pastes[i].px <= out[1].h
        /\ \A i, j \in 1..Len(pastes) : i # j => ~Overlap(pastes[i], pastes[j])
        /\ pc = "done" =>
              \A pixel \in CanvasPixels :
                  Cardinality({i \in 1..Len(pastes) :
                                  pixel \in PixelFootprint(pastes[i])}) = 1

\* a finished render of a 3 x 3 grid at S = 1, zoom = 2 with a merged block
\* and an unmerged cell right of it
C12_Witness ==
    /\ pc = "done" /\ size = 1 /\ zoom = 2 /\ rows = 3 /\ cols = 3
    /\ \E i \in 1..Len(pastes) : pastes[i].px = 4 /\ pastes[i].x = 0
    /\ \E i \in 1..Len(pastes) : pastes[i].px = 2 /\ pastes[i].x = 4

\* a finished render of a clipped grid at S = 2, zoom = 2
C12_WitnessClipped ==
    /\ pc = "done" /\ size = 2 /\ zoom = 2 /\ img.w = 3 /\ img.h = 3
    /\ Len(pastes) = 4 /\ pastes[4].x = 4 /\ pastes[4].y = 4 /\ pastes[4].px = 4

\* a finished render at S = 1, zoom = 1 that pasted an unresized tile
C12_WitnessUnresized ==
    /\ pc = "done" /\ size = 1 /\ zoom = 1
    /\ \E i \in 1..Len(pastes) : ~pastes[i].resized /\ pastes[i].px = 1

\* an iteration that does not raise moves the cursor at least one column to
\* the right on the same row
C19_Progress ==
    (iterations' = iterations + 1 /\ pc' # "error") =>
        (col' >= col + 1 /\ row' = row)

C19_Bounded ==
    /\ \A p \in Placements : p.side >= 1
    /\ iterations <= rows * cols

\* C19: the merge loop terminates for every grid and every integer max block
\* side, also for max_emoji_block <= 0: every placement has side >= 1, every
\* iteration moves the column cursor by at least 1, the loop makes at most
\* rows * cols iterations, and a render with valid size, zoom and palette
\* returns its canvas.
C19_Terminates ==
    /\ <>(pc \in {"done", "error"})
    /\ ValidRender => <>(pc = "done")
    /\ [](C19_Bounded)
    /\ [][C19_Progress]_vars

\* a finished render with a non-positive max block side that took one
\* iteration per cell of a 3 x 3 grid
C19_Witness ==
    /\ pc = "done" /\ max_emoji_block <= 0
    /\ rows = 3 /\ cols = 3 /\ iterations = 9

(***************************************************************************)
(* Properties of a job's life.                                             *)
(***************************************************************************)
Finished(j) == j \in JobIds /\ jobs[j].status \in {"done", "error"}
Enqueued(j) == \E k \in 1..Len(enqueued) : enqueued[k] = j

\* C15: every job that /process enqueues eventually reaches status "done" or
\* "error", under a fairly scheduled worker and returning subprocess calls,
\* whatever happens to the jobs before it, a raising run_job included.
C15_EveryJobFinishes ==
    \A j \in 1..MaxJobs : Enqueued(j) ~> Finished(j)

\* the moves of a job's status: queued -> processing -> done | error
StatusMoves ==
    {<<"queued", "processing">>, <<"processing", "done">>,
     <<"processing", "error">>}

C16_Step ==
    \A j \in JobIds :
        /\ jobs'[j].status # jobs[j].status =>
              <<jobs[j].status, jobs'[j].status>> \in StatusMoves
        /\ jobs'[j].progress >= jobs[j].progress

\* C16 as stated: in every reachable state a job's progress is 100 exactly
\* when its status is "done".
C16_DoneIffProgress100 ==
    \A j \in JobIds : (jobs[j].progress = 100) <=> (jobs[j].status = "done")

\* the job stands between line 197 and line 198 of run_job
BetweenDoneAndProgress100(j) == cur = j /\ wpc = "finished"

C16_Progress ==
    \A j \in JobIds :
        /\ jobs[j].progress \in {0, 10, 30, 80, 85, 100}
        /\ jobs[j].status = "queued" <=> jobs[j].progress = 0
        /\ jobs[j].progress = 100 => jobs[j].status = "done"
        /\ (jobs[j].status = "done" /\ ~BetweenDoneAndProgress100(j)) =>
              jobs[j].progress = 100
        /\ (jobs[j].status = "done" /\ BetweenDoneAndProgress100(j)) =>
              jobs[j].progress \in {80, 85}

\* C16 as the code behaves: a job's status only moves along queued ->
\* processing -> (done | error), "done" and "error" are never followed by
\* another status, no job returns to "queued" and progress never decreases;
\* progress 100 implies status "done", and a "done" job has progress 100 from
\* line 198 on: between the assignments of line 197 and line 198 it is "done"
\* with progress 80 or 85.
C16_StatusForward == [](C16_Progress) /\ [][C16_Step]_vars

\* one job ended in error below progress 100 and the worker stands between
\* the two assignments of the next one
C16_Witness ==
    /\ Len(jobs) = 2
    /\ \E j \in JobIds : jobs[j].status = "error" /\ jobs[j].progress = 80
    /\ \E j \in JobIds :
          /\ BetweenDoneAndProgress100(j)
          /\ jobs[j].status = "done" /\ jobs[j].progress = 85

\* C17: in every reachable state a "done" job has an output path, /download
\* serves a file only for a job whose status is "done", namely the file at
\* its output path, and answers "Not ready" without a file for an id that is
\* unknown or whose job is queued, processing or in error.
C17_DownloadOnlyWhenDone ==
    /\ \A j \in JobIds : jobs[j].status = "done" => jobs[j].output_path # ""
    /\ \A job_id \in RequestIds :
          LET response == DownloadOutcome(job_id)
          IN  /\ response.code = 200 =>
                    /\ job_id \in JobIds
                    /\ jobs[job_id].status = "done"
                    /\ response.file = jobs[job_id].output_path
                    /\ response.file \in {"output.png", "output.jpg",
                                          "output.mp4", "output.gif"}
              /\ (job_id \notin JobIds \/ jobs[job_id].status # "done") =>
                    response = [code |-> 400, file |-> ""]

\* /download serves the gif of a finished job while the next job, whose
\* output path is already set, is still processing
C17_Witness ==
    /\ Len(jobs) = 2
    /\ DownloadOutcome(1) = [code |-> 200, file |-> "output.gif"]
    /\ jobs[2].status = "processing" /\ jobs[2].output_path = "output.mp4"
    /\ DownloadOutcome(2).code = 400

(***************************************************************************)
(* Properties of the size-keyed palette cache.                             *)
(***************************************************************************)
CachedSizes == {s \in DOMAIN palette_cache : palette_cache[s] # << >>}

C14_CacheState ==
    /\ \A s \in DOMAIN builds : builds[s] <= 1
    /\ \A s \in CachedSizes : builds[s] = 1 /\ palette_cache[s][1].size = s
    /\ \A s \in DOMAIN palette_cache : builds[s] = 1 => s \in CachedSizes
    /\ \A s1, s2 \in CachedSizes :
          s1 # s2 => palette_cache[s1][1] # palette_cache[s2][1]
    /\ \A t \in Threads :
          fpal[t] # << >> =>
              /\ fpal[t][1].size = freq[t][1].size
              /\ palette_cache[freq[t][1].size] = fpal[t]
              /\ \A p \in HandedPalettes :
                    p.size = fpal[t][1].size => p = fpal[t][1]

C14_CacheStep ==
    \A s \in CachedSizes : palette_cache'[s] = palette_cache[s]

\* C14: under any interleaving of concurrent get_palette_for_size calls the
\* palette of a size is built at most once, every call for that size returns
\* the one cached instance, the entries of distinct sizes are distinct, and an
\* entry once stored is never replaced or removed.
C14_CacheThreadSafe == [](C14_CacheState) /\ [][C14_CacheStep]_vars

\* two handlers hold the one palette built for size 12 while the cache also
\* keeps the palette of size 4 from an earlier request
C14_Witness ==
    /\ builds[4] = 1 /\ builds[12] = 1
    /\ fpal[1] # << >> /\ fpal[1] = fpal[2]
    /\ fpal[1][1].size = 12
    /\ fpc[1] = "render" /\ fpc[2] = "render"

(***************************************************************************)
(* Properties of clamp_int.                                                *)
(***************************************************************************)
\* C18: clamp_int returns a number in [minimum, maximum] for every value that
\* parses as an integer (the value itself when it lies in the range, else the
\* nearer limit) and the default otherwise; at the call sites of the web app
\* every tile size lies in 4..48, every fps in 1..30 and every max block side
\* in 1..20, so no renderer argument is non-positive.
C18_ClampedInRange ==
    clamped # << >> =>
        LET a == ClampArgs(call_site)
            result == clamped[1]
        IN  /\ form_value.parses =>
                  /\ result \in a.minimum..a.maximum
                  /\ form_value.n \in a.minimum..a.maximum =>
                        result = form_value.n
                  /\ form_value.n < a.minimum => result = a.minimum
                  /\ form_value.n > a.maximum => result = a.maximum
            /\ ~form_value.parses => result = a.default
            /\ call_site \in {"process.size", "process_frame.size"} =>
                  result \in 4..48
            /\ call_site = "process.fps" => result \in 1..30
            /\ call_site = "process_frame.max_block" => result \in 1..20
            /\ result >= 1

\* a negative tile size was raised to 4 and a max block side of 0 to 1
C18_Witness ==
    /\ clamped # << >> /\ form_value.parses
    /\ \/ call_site = "process_frame.size" /\ form_value.n = -3 /\ clamped = <<4>>
       \/ call_site = "process_frame.max_block" /\ form_value.n = 0
            /\ clamped = <<1>>

(***************************************************************************)
(* Properties of renders that share a palette.                             *)
(***************************************************************************)
\* what the call returns when its frame is rendered alone over a palette
\* freshly built for the same size
RenderedAlone(l) ==
    MosaicImage(StartCall(l.img, l.zoom, l.max_emoji_block),
                SharedPaletteFor(shared_palette.size))

C13_State ==
    /\ shared_palette = SharedPaletteFor(shared_palette.size)
    /\ \A f \in Calls :
          calls[f].pc = "done" =>
              /\ RenderedAlone(calls[f]).pc = "done"
              /\ calls[f].plan = RenderedAlone(calls[f]).plan
              /\ calls[f].pastes = RenderedAlone(calls[f]).pastes
              /\ calls[f].out = RenderedAlone(calls[f]).out

C13_Step ==
    /\ shared_palette' = shared_palette
    /\ \A f \in Calls :
          /\ (calls[f].pc \in {"canvas", "while"}) =>
                calls'[f].grid = calls[f].grid
          /\ (calls[f].pc = "canvas" /\ calls'[f].pc = "while") =>
                \A cell \in Cells(calls[f].rows, calls[f].cols) :
                    ~calls'[f].covered[cell]

\* C13: no step of mosaic_image changes the shared palette (colours and
\* images) or the grid once built, every call starts its loop with an
\* all-false coverage mask, and every call that returns, whatever ran before
\* it or beside it over the same palette, has the placements, the pastes and
\* the canvas size the render of its frame alone has.
C13_FramesIndependent == [](C13_State) /\ [][C13_Step]_vars

\* at zoom 1 one call has merged its frame into one resized black block and
\* another has pasted an unresized black tile
C13_Witness ==
    /\ calls[1].pc = "done" /\ calls[2].pc = "done" /\ calls[1].zoom = 1
    /\ Len(calls[1].plan) = 1 /\ calls[1].plan[1].side = 2
    /\ calls[1].pastes[1].resized
    /\ Len(calls[2].plan) = 4
    /\ calls[2].plan[1].v = calls[1].plan[1].v
    /\ ~calls[2].pastes[1].resized

====
